---- MODULE Spec2Model ----
(***************************************************************************)
(* Model of the workflow engine of AIAgent_Development/automation_workflow *)
(* (WorkflowEngine and its driver thread _execute_workflow_async, the      *)
(* ThreadPoolExecutor it submits to, and the caller-facing operations),    *)
(* and of ErrorRecoveryManager, PerformanceMonitor and WorkflowBuilder;     *)
(* of BasicAgent of AIAgent_Development/basic_agent_framework; and of the   *)
(* order_processing workflow of AIAgent_Development/agent_orchestrator.     *)
(*                                                                         *)
(* Threads: the caller (register_function, create_workflow,                *)
(* execute_workflow, cancel_execution), one driver thread per call of      *)
(* execute_workflow, and the pool's workers.  Caller operations are one    *)
(* step each.  A driver step is a group of statements in which the driver  *)
(* reads or writes shared objects, followed by the statements that touch   *)
(* only its locals: the submit of a task and the write of its RUNNING      *)
(* status are two steps, as are the write of the final execution status    *)
(* and the write of end_time.  What a reader sees between two attribute    *)
(* writes of one such group is modelled by the steps DriverMarkStatus,     *)
(* DriverMarkTime, DriverCollectStatus, DriverCollectResult and            *)
(* DriverCollectTime, one attribute write each, of SpecReads.              *)
(***************************************************************************)
EXTENDS Integers, Sequences, FiniteSets, TLC

\* ---------------------------------------------------------------- bounds
\* largest retry_count a task reaches through attempt_recovery
MaxRetryCount == 4
\* number of successful execute_workflow calls explored
MaxExecs == 2
\* values of int(time.time()) explored: 0..MaxTime
MaxTime == 1
MaxSamples == 3
MaxClock == 3
MaxQueue == 3

\* ThreadPoolExecutor(max_workers=...) of the engine under test
max_workers == 2

\* ------------------------------------------------------------- vocabulary
None == "None"

\* WorkflowStatus / TaskStatus values (the enums' value strings)
RUNNING == "running"
PENDING == "pending"
COMPLETED == "completed"
FAILED == "failed"
CANCELLED == "cancelled"

\* a WorkflowTask as built by WorkflowBuilder.add_simple_task
SimpleTask(id, function, dependencies) ==
    [id |-> id, function |-> function, dependencies |-> dependencies]

\* the empty workflow id
EmptyName == ""

\* Task lists whose dependencies cannot all be met, and the empty list: B
\* depends on an id that names no task, A and B depend on each other, A
\* depends on itself.
GraphMenu ==
    [dangling |-> << SimpleTask("A", "f_a", {}), SimpleTask("B", "f_b", {"Z"}) >>,
     cycle    |-> << SimpleTask("A", "f_a", {"B"}), SimpleTask("B", "f_b", {"A"}) >>,
     selfdep  |-> << SimpleTask("A", "f_a", {"A"}), SimpleTask("B", "f_b", {}) >>,
     empty    |-> << >>]

\* _create_order_workflow (agent_orchestrator.py 318-330): five tasks in a
\* chain, each naming the operation of its own id
OrderTasks ==
    << SimpleTask("validate_order", "validate_order", {}),
       SimpleTask("check_inventory", "check_inventory", {"validate_order"}),
       SimpleTask("process_payment", "process_payment", {"check_inventory"}),
       SimpleTask("update_inventory", "update_inventory", {"process_payment"}),
       SimpleTask("send_confirmation", "send_confirmation", {"update_inventory"}) >>

\* every call of _create_order_workflow builds new WorkflowTask objects: the
\* objects of the n-th call carry its number
OrderBuilds == [n \in 1..MaxExecs |-> "order_processing build " \o ToString(n)]

OrderMenu == [b \in {OrderBuilds[n] : n \in DOMAIN OrderBuilds} |-> OrderTasks]

\* The task lists the caller has built when the engine is constructed: the
\* chain A -> B, three independent tasks, and the single task handed over
\* under the empty name.
InitialMenu ==
    [chain |-> << SimpleTask("A", "f_a", {}), SimpleTask("B", "f_b", {"A"}) >>,
     fan   |-> << SimpleTask("A", "f_a", {}), SimpleTask("B", "f_b", {}),
                  SimpleTask("C", "f_c", {}) >>]
    @@ (EmptyName :> << SimpleTask("A", "f_a", {}) >>)

\* The task lists handed to create_workflow
WorkflowMenu == InitialMenu @@ GraphMenu @@ OrderMenu

\* the workflow names the caller defines and starts
WorkflowNames == {"chain"}
\* a name no create_workflow call ever uses
UndefinedName == "undefined"
TaskIds == {"A", "B", "C"}
OrderTaskIds == { OrderTasks[j].id : j \in DOMAIN OrderTasks }
AllTaskIds == TaskIds \cup OrderTaskIds

\* register_function(name, func): the callables a caller registers either
\* return a value or raise
Registrations == { <<"f_a", "returns">>, <<"f_a", "raises">>, <<"f_b", "returns">> }

\* the WorkflowTask objects that exist from the start: the i-th task built
\* for workflow w of InitialMenu.  The objects of the other lists come into
\* being when the caller builds them.
TaskObjs ==
    { o \in (DOMAIN InitialMenu) \X (1..3) : o[2] <= Len(InitialMenu[o[1]]) }
TaskSpecOf(o) == WorkflowMenu[o[1]][o[2]]
\* the objects of the list built under key w
ObjsOf(w) == { <<w, i>> : i \in 1..Len(WorkflowMenu[w]) }

\* execution ids: f"{workflow_id}_{int(time.time())}" is injective in the
\* pair (workflow_id, second) because the suffix after the last "_" is the
\* decimal second.  NoId stands for a missing id (execution_id=None, no id
\* returned).
DefaultId(w, t) == <<w, t>>
NoId == <<None, 0>>
AllIds == { DefaultId(w, t) : w \in WorkflowNames, t \in 0..MaxTime }

VARIABLES
    workflows,             \* WorkflowEngine.workflows: name -> list of task objects
    executions,            \* WorkflowEngine.executions: id -> WorkflowExecution object
    registered_functions,  \* WorkflowEngine.registered_functions: name -> callable
    execs,                 \* the WorkflowExecution objects, in creation order
    task,                  \* the mutable fields of every WorkflowTask object
    driver,                \* the driver threads' locals, one per execute_workflow
    work_queue,            \* the executor's FIFO of submitted work items <<driver, id>>
    now,                   \* int(time.time())
    ret,                   \* what the caller's last call returned
    recovery_strategies,   \* ErrorRecoveryManager.recovery_strategies
    metrics,               \* PerformanceMonitor.metrics: name -> list of records
    clock,                 \* datetime.now(), in ticks of half a second
    summary,               \* the last get_metric_summary call and what it returned
    state,                 \* BasicAgent.state
    task_queue,            \* BasicAgent.task_queue
    returned,              \* the last BasicAgent call and what it returned
    cancelling             \* the execution a cancel_execution call found Running
                           \* and has not marked yet (0: no such call)

engine_vars == << workflows, executions, registered_functions, execs, task,
                  driver, work_queue, now, ret, recovery_strategies,
                  cancelling >>

monitor_vars == << metrics, clock, summary >>

agent_vars == << state, task_queue, returned >>

vars == << engine_vars, monitor_vars, agent_vars, cancelling >>

\* ------------------------------------------------------------------ init
NewTask ==
    [status |-> PENDING, result |-> None, error |-> None,
     start_time |-> None, end_time |-> None, retry_count |-> 0]

NoFutures == [id \in AllTaskIds |-> None]

\* WorkflowTask(...), lines 42-59: the objects objs are built with the
\* defaults of the dataclass unless they exist already
build_tasks(objs) ==
    [o \in DOMAIN task \cup objs |-> IF o \in DOMAIN task THEN task[o] ELSE NewTask]

Init ==
    /\ workflows = << >>
    /\ executions = << >>
    /\ registered_functions = << >>
    /\ execs = << >>
    /\ task = [o \in TaskObjs |-> NewTask]
    /\ driver = << >>
    /\ work_queue = << >>
    /\ now = 0
    /\ ret = [op |-> None, id |-> NoId, ok |-> FALSE]
    /\ recovery_strategies = << >>
    /\ metrics = << >>
    /\ clock = 0
    /\ summary = [metric_name |-> None, time_window |-> << >>, result |-> << >>]
    /\ state = "idle"
    /\ task_queue = << >>
    /\ returned = [op |-> None, result |-> << >>]
    /\ cancelling = 0

\* ------------------------------------------------------- caller operations
Tick ==
    /\ now < MaxTime
    /\ now' = now + 1
    /\ UNCHANGED << workflows, executions, registered_functions, execs, task,
                    driver, work_queue, ret,
                    recovery_strategies,
                    monitor_vars, agent_vars, cancelling >>

register_function(name, func) ==
    /\ registered_functions' =
           [x \in DOMAIN registered_functions \cup {name} |->
               IF x = name THEN func ELSE registered_functions[x]]
    /\ UNCHANGED << workflows, executions, execs, task, driver, work_queue, now, ret,
                    recovery_strategies,
                    monitor_vars, agent_vars, cancelling >>

create_workflow(w) ==
    /\ workflows' = [x \in DOMAIN workflows \cup {w} |->
                        IF x = w THEN [i \in 1..Len(WorkflowMenu[w]) |-> <<w, i>>]
                        ELSE workflows[x]]
    /\ UNCHANGED << executions, registered_functions, execs, task, driver,
                    work_queue, now, ret,
                    recovery_strategies,
                    monitor_vars, agent_vars, cancelling >>

NewDriver ==
    [pc |-> "start", execution |-> 0, completed_tasks |-> {},
     running_tasks |-> << >>, future |-> NoFutures, i |-> 0,
     iteration_cancelled |-> FALSE]

\* starts an execution without looking the name up first
execute_unchecked(w, execution_id) ==
    /\ Len(execs) < MaxExecs
    /\ LET id == IF execution_id = NoId THEN DefaultId(w, now) ELSE execution_id
           execution == [id |-> id, workflow_id |-> w, status |-> RUNNING,
                         tasks |-> IF w \in DOMAIN workflows THEN workflows[w]
                                   ELSE << >>,
                         end_time |-> None]
       IN /\ execs' = Append(execs, execution)
          /\ executions' = [x \in DOMAIN executions \cup {id} |->
                               IF x = id THEN Len(execs) + 1 ELSE executions[x]]
          /\ driver' = Append(driver, NewDriver)
          /\ ret' = [op |-> "execute_workflow", id |-> id, ok |-> TRUE]
    /\ UNCHANGED << workflows, registered_functions, task, work_queue, now,
                    recovery_strategies,
                    monitor_vars, agent_vars, cancelling >>

\* stores the execution under the id of second 0 and returns the id of now
execute_returns_unstored(w, execution_id) ==
    IF w \notin DOMAIN workflows
    THEN /\ ret' = [op |-> "execute_workflow", id |-> NoId, ok |-> FALSE]
         /\ UNCHANGED << workflows, executions, registered_functions, execs,
                         task, driver, work_queue, now, recovery_strategies,
                    monitor_vars, agent_vars, cancelling >>
    ELSE /\ Len(execs) < MaxExecs
         /\ LET id == DefaultId(w, 0)
                execution == [id |-> id, workflow_id |-> w, status |-> RUNNING,
                              tasks |-> workflows[w], end_time |-> None]
            IN /\ execs' = Append(execs, execution)
               /\ executions' = [x \in DOMAIN executions \cup {id} |->
                                    IF x = id THEN Len(execs) + 1
                                    ELSE executions[x]]
               /\ driver' = Append(driver, NewDriver)
               /\ ret' = [op |-> "execute_workflow", id |-> DefaultId(w, now),
                          ok |-> TRUE]
         /\ UNCHANGED << workflows, registered_functions, task, work_queue, now,
                         recovery_strategies,
                    monitor_vars, agent_vars, cancelling >>

execute_workflow(w, execution_id) ==
    IF w \notin DOMAIN workflows
    THEN \* raise ValueError
         /\ ret' = [op |-> "execute_workflow", id |-> NoId, ok |-> FALSE]
         /\ UNCHANGED << workflows, executions, registered_functions, execs,
                         task, driver, work_queue, now,
                    recovery_strategies,
                    monitor_vars, agent_vars, cancelling >>
    ELSE /\ Len(execs) < MaxExecs
         /\ LET id == IF execution_id = NoId THEN DefaultId(w, now)
                      ELSE execution_id
                execution == [id |-> id, workflow_id |-> w, status |-> RUNNING,
                              tasks |-> workflows[w], end_time |-> None]
            IN /\ execs' = Append(execs, execution)
               /\ executions' = [x \in DOMAIN executions \cup {id} |->
                                    IF x = id THEN Len(execs) + 1
                                    ELSE executions[x]]
               /\ driver' = Append(driver, NewDriver)
               /\ ret' = [op |-> "execute_workflow", id |-> id, ok |-> TRUE]
         /\ UNCHANGED << workflows, registered_functions, task, work_queue, now,
                    recovery_strategies,
                    monitor_vars, agent_vars, cancelling >>

\* the None of Optional[WorkflowExecution], as a record so that it compares
\* with executions
NoExecution ==
    [id |-> NoId, workflow_id |-> None, status |-> None, tasks |-> << >>,
     end_time |-> None]

\* self.executions.get(execution_id)
get_execution_status(id) ==
    IF id \in DOMAIN executions THEN execs[executions[id]] ELSE NoExecution

\* cancels whatever the status is
cancel_any_status(id) ==
    IF id \in DOMAIN executions
    THEN /\ execs' = [execs EXCEPT ![executions[id]].status = CANCELLED]
         /\ ret' = [op |-> "cancel_execution", id |-> id, ok |-> TRUE]
         /\ UNCHANGED << workflows, executions, registered_functions, task,
                         driver, work_queue, now,
                    recovery_strategies,
                    monitor_vars, agent_vars, cancelling >>
    ELSE /\ ret' = [op |-> "cancel_execution", id |-> id, ok |-> FALSE]
         /\ UNCHANGED << workflows, executions, registered_functions, execs,
                         task, driver, work_queue, now,
                    recovery_strategies,
                    monitor_vars, agent_vars, cancelling >>

cancel_execution(id) ==
    IF id \in DOMAIN executions /\ execs[executions[id]].status = RUNNING
    THEN /\ execs' = [execs EXCEPT ![executions[id]].status = CANCELLED]
         /\ ret' = [op |-> "cancel_execution", id |-> id, ok |-> TRUE]
         /\ UNCHANGED << workflows, executions, registered_functions, task,
                         driver, work_queue, now,
                    recovery_strategies,
                    monitor_vars, agent_vars, cancelling >>
    ELSE /\ ret' = [op |-> "cancel_execution", id |-> id, ok |-> FALSE]
         /\ UNCHANGED << workflows, executions, registered_functions, execs,
                         task, driver, work_queue, now,
                    recovery_strategies,
                    monitor_vars, agent_vars, cancelling >>

\* cancel_execution as the two steps a driver thread can run between: the
\* test of lines 204-205 ...
CancelTest(id) ==
    /\ cancelling = 0
    /\ id \in DOMAIN executions
    /\ execs[executions[id]].status = RUNNING
    /\ cancelling' = executions[id]
    /\ UNCHANGED << workflows, executions, registered_functions, execs, task,
                    driver, work_queue, now, ret, recovery_strategies,
                    monitor_vars, agent_vars >>

\* ... and the assignment and return of lines 206-208
CancelMark ==
    /\ cancelling # 0
    /\ execs' = [execs EXCEPT ![cancelling].status = CANCELLED]
    /\ ret' = [op |-> "cancel_execution", id |-> execs[cancelling].id, ok |-> TRUE]
    /\ cancelling' = 0
    /\ UNCHANGED << workflows, executions, registered_functions, task,
                    driver, work_queue, now, recovery_strategies,
                    monitor_vars, agent_vars >>

\* --------------------------------------------------- ErrorRecoveryManager
\* type(error).__name__ of the errors handed to attempt_recovery
ErrorTypes == {"ValueError", "KeyError"}
\* register_recovery_strategy(error_type, strategy): a strategy returns True
\* ("recovers"), returns False ("declines") or raises
Strategies ==
    { <<"ValueError", "recovers">>, <<"ValueError", "declines">>,
      <<"ValueError", "raises">> }

register_recovery_strategy(error_type, strategy) ==
    /\ recovery_strategies' =
           [x \in DOMAIN recovery_strategies \cup {error_type} |->
               IF x = error_type THEN strategy ELSE recovery_strategies[x]]
    /\ UNCHANGED << workflows, executions, registered_functions, execs, task,
                    driver, work_queue, now, ret, monitor_vars, agent_vars, cancelling >>

\* WorkflowTask.max_retries, the default every built task carries (line 53)
max_retries == 3

\* a reset that keeps the recorded error
RecoveredKeepsError(t) ==
    [t EXCEPT !.status = PENDING, !.retry_count = t.retry_count + 1]

\* the task after a strategy returned True (lines 237-239)
Recovered(t) ==
    [t EXCEPT !.status = PENDING, !.retry_count = t.retry_count + 1,
              !.error = None]

\* a recovery that resets the task whenever the strategy did not raise,
\* whatever the strategy returned
attempt_recovery_any_outcome(o, error_type) ==
    /\ IF /\ error_type \in DOMAIN recovery_strategies
          /\ recovery_strategies[error_type] # "raises"
       THEN /\ task[o].retry_count < MaxRetryCount
            /\ task' = [task EXCEPT ![o] = Recovered(task[o])]
            /\ ret' = [op |-> "attempt_recovery", id |-> NoId, ok |-> TRUE,
                        task |-> o, error_type |-> error_type]
       ELSE /\ ret' = [op |-> "attempt_recovery", id |-> NoId, ok |-> FALSE,
                        task |-> o, error_type |-> error_type]
            /\ UNCHANGED task
    /\ UNCHANGED << workflows, executions, registered_functions, execs, driver,
                    work_queue, now, recovery_strategies,
                    monitor_vars, agent_vars, cancelling >>

\* attempt_recovery(task, error) on task object o with an error of type
\* error_type; the call returns ret.ok
attempt_recovery(o, error_type) ==
    /\ IF /\ error_type \in DOMAIN recovery_strategies
          /\ recovery_strategies[error_type] = "recovers"
       THEN /\ task[o].retry_count < MaxRetryCount
            /\ task' = [task EXCEPT ![o] = Recovered(task[o])]
            /\ ret' = [op |-> "attempt_recovery", id |-> NoId, ok |-> TRUE,
                        task |-> o, error_type |-> error_type]
       ELSE /\ ret' = [op |-> "attempt_recovery", id |-> NoId, ok |-> FALSE,
                        task |-> o, error_type |-> error_type]
            /\ UNCHANGED task
    /\ UNCHANGED << workflows, executions, registered_functions, execs, driver,
                    work_queue, now, recovery_strategies,
                    monitor_vars, agent_vars, cancelling >>

\* ------------------------------------------------------ PerformanceMonitor
\* Values handed to record_metric: a Python type and, for a number, the number
MetricValues == { <<"int", 10>>, <<"int", 20>>, <<"int", 30>>, <<"str", 0>> }

MetricNames == {"latency"}

\* a name no record_metric call uses
UnrecordedName == "missing"

QueryNames == MetricNames \cup {UnrecordedName}

\* time_window = None, and timedelta values in ticks
NoWindow == << >>

Windows == { NoWindow, <<0>>, <<2>> }

\* isinstance(value, (int, float)) (line 291)
IsNumeric(value) == value[1] \in {"int", "float"}

\* datetime.isoformat(): seconds, and the fraction only when it is not zero
isoformat(t) ==
    IF t % 2 = 0 THEN << t \div 2 >> ELSE << t \div 2, 500000 >>

\* datetime.fromisoformat()
fromisoformat(s) ==
    IF Len(s) = 1 THEN 2 * s[1] ELSE 2 * s[1] + s[2] \div 500000

\* time passes
AdvanceClock ==
    /\ clock < MaxClock
    /\ clock' = clock + 1
    /\ UNCHANGED << engine_vars, agent_vars, metrics, summary >>

\* record_metric(metric_name, value); the metadata is stored and never read
\* by the summary
record_metric(metric_name, value) ==
    /\ metric_name \in DOMAIN metrics
          => Len(metrics[metric_name]) < MaxSamples
    /\ LET existing == IF metric_name \in DOMAIN metrics
                        THEN metrics[metric_name] ELSE << >>
           metric_record == [timestamp |-> isoformat(clock), value |-> value]
       IN  metrics' = [x \in DOMAIN metrics \cup {metric_name} |->
                          IF x = metric_name
                          THEN Append(existing, metric_record)
                          ELSE metrics[x]]
    /\ UNCHANGED << engine_vars, agent_vars, clock, summary >>

RECURSIVE sum(_)
sum(values) ==
    IF values = << >> THEN 0 ELSE Head(values) + sum(Tail(values))

RECURSIVE min(_)
min(values) ==
    IF Len(values) = 1 THEN Head(values)
    ELSE IF Head(values) <= min(Tail(values)) THEN Head(values)
         ELSE min(Tail(values))

RECURSIVE max(_)
max(values) ==
    IF Len(values) = 1 THEN Head(values)
    ELSE IF Head(values) >= max(Tail(values)) THEN Head(values)
         ELSE max(Tail(values))

\* the records the summary is computed from (lines 282-286): time_window is
\* used only when it is true, which None and timedelta(0) are not
WindowRecords(metric_name, time_window) ==
    IF time_window # NoWindow /\ time_window[1] # 0
    THEN LET cutoff == clock - time_window[1]
             Later(r) == fromisoformat(r.timestamp) > cutoff
         IN  SelectSeq(metrics[metric_name], Later)
    ELSE metrics[metric_name]

\* values = [r["value"] for r in records if isinstance(...)] (line 291)
NumericValues(records) ==
    LET Numeric(r) == IsNumeric(r.value)
        numeric == SelectSeq(records, Numeric)
    IN  [i \in 1..Len(numeric) |-> numeric[i].value[2]]

\* a summary whose mean is taken over every record of the range
metric_summary_mean_over_records(metric_name, time_window) ==
    IF metric_name \notin DOMAIN metrics THEN << >>
    ELSE LET records == WindowRecords(metric_name, time_window)
             values == NumericValues(records)
         IN  IF records = << >> THEN << >>
             ELSE IF values = << >> THEN [count |-> Len(records)]
             ELSE [count |-> Len(records),
                   min |-> min(values),
                   max |-> max(values),
                   avg |-> << sum(values), Len(records) >>,
                   latest |-> values[Len(values)]]

\* what get_metric_summary(metric_name, time_window) returns (lines 279-302):
\* a dict as a function of its keys; avg is the quotient sum / len, kept as
\* the pair << sum, len >>
metric_summary(metric_name, time_window) ==
    IF metric_name \notin DOMAIN metrics THEN << >>
    ELSE LET records == WindowRecords(metric_name, time_window)
             values == NumericValues(records)
         IN  IF records = << >> THEN << >>
             ELSE IF values = << >> THEN [count |-> Len(records)]
             ELSE [count |-> Len(records),
                   min |-> min(values),
                   max |-> max(values),
                   avg |-> << sum(values), Len(values) >>,
                   latest |-> values[Len(values)]]

get_metric_summary(metric_name, time_window) ==
    /\ summary' = [metric_name |-> metric_name, time_window |-> time_window,
                   result |-> metric_summary(metric_name, time_window)]
    /\ UNCHANGED << engine_vars, agent_vars, metrics, clock >>

\* -------------------------------------------------------------- BasicAgent
\* AgentState
IDLE == "idle"
PROCESSING == "processing"
WAITING_FOR_INPUT == "waiting_for_input"
ERROR == "error"

AgentStates == {IDLE, PROCESSING, WAITING_FOR_INPUT, ERROR}

\* a task content whose repr raises (a dict nested beyond the recursion
\* limit, an object with a failing __repr__)
Unprintable == "unprintable"

\* the task dicts {"type": ..., "content": ...} handed to add_task
AgentTasks ==
    { [type |-> "test", content |-> c] : c \in {"x", "y", Unprintable} }

\* the strings handed to handle_user_input
UserInputs == {"hello"}

\* update_state(new_state)
update_state(new_state) ==
    /\ state' = new_state
    /\ UNCHANGED << engine_vars, monitor_vars, task_queue, returned >>

\* add_task(task)
add_task(t) ==
    /\ Len(task_queue) < MaxQueue
    /\ task_queue' = Append(task_queue, t)
    /\ UNCHANGED << engine_vars, monitor_vars, state, returned >>

\* the None a call returns, as a value that compares with result dicts
NoResult == << >>

\* BasicAgent._execute_task(task): the two f-strings format the task, which
\* raises when its repr does
Raises(t) == t.content = Unprintable

ExecuteTaskResult(t) == [result |-> << "Processed task", t >>]

\* a process_next_task that takes the newest task
ProcessNewest(state_before, q) ==
    IF q = << >>
    THEN [state |-> state_before, task_queue |-> q, result |-> NoResult]
    ELSE LET t == q[Len(q)]
         IN  IF Raises(t)
             THEN [state |-> ERROR, task_queue |-> SubSeq(q, 1, Len(q) - 1),
                   result |-> [error |-> "str(e)"]]
             ELSE [state |-> IDLE, task_queue |-> SubSeq(q, 1, Len(q) - 1),
                   result |-> ExecuteTaskResult(t)]

\* what process_next_task does to a queue q: the state it leaves, the queue
\* it leaves and the value it returns (lines 68-80); state_before is the
\* state at the call
ProcessNext(state_before, q) ==
    IF q = << >>
    THEN [state |-> state_before, task_queue |-> q, result |-> NoResult]
    ELSE LET t == Head(q)
         IN  IF Raises(t)
             THEN [state |-> ERROR, task_queue |-> Tail(q),
                   result |-> [error |-> "str(e)"]]
             ELSE [state |-> IDLE, task_queue |-> Tail(q),
                   result |-> ExecuteTaskResult(t)]

process_next_task ==
    /\ LET r == ProcessNext(state, task_queue)
       IN  /\ state' = r.state
           /\ task_queue' = r.task_queue
           /\ returned' = [op |-> "process_next_task", result |-> r.result]
    /\ UNCHANGED << engine_vars, monitor_vars >>

\* the task handle_user_input makes of its input (line 113)
UserTask(user_input) == [type |-> "user_input", content |-> user_input]

\* a handle_user_input without the finally clause
HandleUserInputNoFinally(q, user_input) ==
    ProcessNext(WAITING_FOR_INPUT, Append(q, UserTask(user_input)))

\* what handle_user_input(user_input) does to a queue q (lines 111-119):
\* process_next_task is called on a queue that is never empty, so "or {}"
\* never applies, and the finally clause sets IDLE
HandleUserInput(q, user_input) ==
    LET r == ProcessNext(WAITING_FOR_INPUT, Append(q, UserTask(user_input)))
    IN  [state |-> IDLE, task_queue |-> r.task_queue, result |-> r.result]

handle_user_input(user_input) ==
    /\ LET r == HandleUserInput(task_queue, user_input)
       IN  /\ state' = r.state
           /\ task_queue' = r.task_queue
           /\ returned' = [op |-> "handle_user_input", result |-> r.result]
    /\ UNCHANGED << engine_vars, monitor_vars >>

\* reset()
reset ==
    /\ state' = IDLE
    /\ task_queue' = << >>
    /\ UNCHANGED << engine_vars, monitor_vars, returned >>

\* ----------------------------------------------------------------- driver
Drivers == DOMAIN driver

\* next(t for t in execution.tasks if t.id == task_id)
TaskById(ts, id) ==
    LET first == CHOOSE j \in 1..Len(ts) :
                    /\ TaskSpecOf(ts[j]).id = id
                    /\ \A h \in 1..(j - 1) : TaskSpecOf(ts[h]).id # id
    IN ts[first]

InSeq(x, s) == \E j \in 1..Len(s) : s[j] = x
Without(s, x) == SelectSeq(s, LAMBDA y : y # x)

\* line 138: while len(completed_tasks) < len(execution.tasks); d is the
\* driver's locals, e its execution.  A new iteration starts at the first
\* task of the for loop of line 140.
\* a loop test that gives up when nothing is in flight and no Pending task
\* has its dependencies collected
WhileTestGivesUp(d, e) ==
    IF /\ Cardinality(d.completed_tasks) < Len(e.tasks)
       /\ \/ d.running_tasks # << >>
          \/ \E j \in 1..Len(e.tasks) :
                /\ task[e.tasks[j]].status = PENDING
                /\ TaskSpecOf(e.tasks[j]).dependencies \subseteq d.completed_tasks
    THEN [d EXCEPT !.pc = "scan", !.i = 1,
                   !.iteration_cancelled = (e.status = CANCELLED)]
    ELSE [d EXCEPT !.pc = "final"]

WhileTest(d, e) ==
    IF Cardinality(d.completed_tasks) < Len(e.tasks)
    THEN [d EXCEPT !.pc = "scan", !.i = 1,
                   !.iteration_cancelled = (e.status = CANCELLED)]
    ELSE [d EXCEPT !.pc = "final"]

\* line 131: execution = self.executions[execution_id], then the loop test
DriverStart(k) ==
    /\ k \in Drivers
    /\ driver[k].pc = "start"
    /\ LET x == executions[execs[k].id]
       IN driver' = [driver EXCEPT
              ![k] = WhileTest([driver[k] EXCEPT !.execution = x], execs[x])]
    /\ UNCHANGED << workflows, executions, registered_functions, execs, task,
                    work_queue, now, ret,
                    recovery_strategies,
                    monitor_vars, agent_vars, cancelling >>

DependenciesIgnored(d, o) == TRUE

\* a dependency counts only when it succeeded
DependenciesSucceeded(d, o) ==
    \A dep \in TaskSpecOf(o).dependencies :
        /\ dep \in d.completed_tasks
        /\ \A p \in TaskObjs :
               (p[1] = o[1] /\ TaskSpecOf(p).id = dep) => task[p].status = COMPLETED

\* a dependency counts only when it names a task of the execution
DependenciesKnownDone(d, o) ==
    \A dep \in TaskSpecOf(o).dependencies :
        (\E j \in 1..Len(execs[d.execution].tasks) :
            TaskSpecOf(execs[d.execution].tasks[j]).id = dep)
           => dep \in d.completed_tasks

\* all(dep in completed_tasks for dep in task.dependencies)
DependenciesDone(d, o) ==
    \A dep \in TaskSpecOf(o).dependencies : dep \in d.completed_tasks

\* lines 141-143: the condition under which driver (locals d) submits task o
ReadyToRun(d, o) ==
    /\ task[o].status = PENDING
    /\ ~InSeq(TaskSpecOf(o).id, d.running_tasks)
    /\ DependenciesDone(d, o)

\* lines 140-147: the for loop from its position i up to the next submit, or
\* to its end and on to the collection loop
DriverScan(k) ==
    /\ k \in Drivers
    /\ driver[k].pc = "scan"
    /\ LET d == driver[k]
           e == execs[d.execution]
           ts == e.tasks
           ready == { j \in d.i..Len(ts) : ReadyToRun(d, ts[j]) }
       IN IF ready = {}
          THEN /\ driver' = [driver EXCEPT ![k].pc = "collect", ![k].i = 1]
               /\ UNCHANGED work_queue
          ELSE LET j == CHOOSE j \in ready : \A h \in ready : j <= h
                   id == TaskSpecOf(ts[j]).id
               IN /\ work_queue' = Append(work_queue, <<k, id>>)
                  /\ driver' = [driver EXCEPT ![k] =
                         [d EXCEPT !.pc = "mark", !.i = j,
                                   !.running_tasks = Append(d.running_tasks, id),
                                   !.future[id] = "queued"]]
    /\ UNCHANGED << workflows, executions, registered_functions, execs, task,
                    now, ret,
                    recovery_strategies,
                    monitor_vars, agent_vars, cancelling >>

\* lines 148-149: task.status = RUNNING; task.start_time = now
DriverMark(k) ==
    /\ k \in Drivers
    /\ driver[k].pc = "mark"
    /\ LET o == execs[driver[k].execution].tasks[driver[k].i]
       IN task' = [task EXCEPT ![o].status = RUNNING, ![o].start_time = "set"]
    /\ driver' = [driver EXCEPT ![k].pc = "scan", ![k].i = driver[k].i + 1]
    /\ UNCHANGED << workflows, executions, registered_functions, execs,
                    work_queue, now, ret,
                    recovery_strategies,
                    monitor_vars, agent_vars, cancelling >>

FutureDone(f) == f \in {"returned", "raised", "unregistered"}

\* lines 154-162 and 163-169: what the driver records for a finished future
Collected(t, f) ==
    IF f = "returned"
    THEN [t EXCEPT !.status = COMPLETED, !.result = "result", !.end_time = "set"]
    ELSE [t EXCEPT !.status = FAILED, !.error = f, !.end_time = "set"]

\* an error of a task's operation escapes to the handler of lines 182-184
DriverCollectUncaught(k) ==
    /\ k \in Drivers
    /\ driver[k].pc = "collect"
    /\ LET d == driver[k]
           e == execs[d.execution]
       IN IF d.running_tasks = << >>
          THEN /\ driver' = [driver EXCEPT ![k] = WhileTest(d, e)]
               /\ UNCHANGED << task, execs >>
          ELSE LET id == d.running_tasks[d.i]
                   f == d.future[id]
                   o == TaskById(e.tasks, id)
                   last == d.i = Len(d.running_tasks)
                   dd == [d EXCEPT
                            !.completed_tasks = d.completed_tasks \cup {id},
                            !.running_tasks = Without(d.running_tasks, id),
                            !.future[id] = None]
               IN IF ~FutureDone(f)
                  THEN /\ driver' = [driver EXCEPT ![k] =
                             IF last THEN WhileTest(d, e)
                             ELSE [d EXCEPT !.i = d.i + 1]]
                       /\ UNCHANGED << task, execs >>
                  ELSE IF f = "returned"
                  THEN /\ task' = [task EXCEPT ![o] = Collected(task[o], f)]
                       /\ driver' = [driver EXCEPT ![k] =
                             IF last THEN WhileTest(dd, e) ELSE dd]
                       /\ UNCHANGED execs
                  ELSE /\ execs' = [execs EXCEPT ![d.execution].status = FAILED]
                       /\ driver' = [driver EXCEPT ![k].pc = "finally"]
                       /\ UNCHANGED task
    /\ UNCHANGED << workflows, executions, registered_functions,
                    work_queue, now, ret, recovery_strategies,
                    monitor_vars, agent_vars, cancelling >>

\* lines 152-171: the collection loop over list(running_tasks.items()), one
\* item a step (i is the position in that list), then time.sleep and the
\* loop test
DriverCollect(k) ==
    /\ k \in Drivers
    /\ driver[k].pc = "collect"
    /\ LET d == driver[k]
           e == execs[d.execution]
       IN IF d.running_tasks = << >>
          THEN /\ driver' = [driver EXCEPT ![k] = WhileTest(d, e)]
               /\ UNCHANGED task
          ELSE LET id == d.running_tasks[d.i]
                   f == d.future[id]
                   o == TaskById(e.tasks, id)
                   last == d.i = Len(d.running_tasks)
                   dd == [d EXCEPT
                            !.completed_tasks = d.completed_tasks \cup {id},
                            !.running_tasks = Without(d.running_tasks, id),
                            !.future[id] = None]
               IN IF ~FutureDone(f)
                  THEN /\ driver' = [driver EXCEPT ![k] =
                             IF last THEN WhileTest(d, e)
                             ELSE [d EXCEPT !.i = d.i + 1]]
                       /\ UNCHANGED task
                  ELSE /\ task' = [task EXCEPT ![o] = Collected(task[o], f)]
                       /\ driver' = [driver EXCEPT ![k] =
                             IF last THEN WhileTest(dd, e) ELSE dd]
    /\ UNCHANGED << workflows, executions, registered_functions, execs,
                    work_queue, now, ret,
                    recovery_strategies,
                    monitor_vars, agent_vars, cancelling >>

\* The attribute writes of lines 148-149, 157-162 and 165-169 one at a time.
\* line 148: task.status = RUNNING
DriverMarkStatus(k) ==
    /\ k \in Drivers
    /\ driver[k].pc = "mark"
    /\ LET o == execs[driver[k].execution].tasks[driver[k].i]
       IN task' = [task EXCEPT ![o].status = RUNNING]
    /\ driver' = [driver EXCEPT ![k].pc = "mark_time"]
    /\ UNCHANGED << workflows, executions, registered_functions, execs,
                    work_queue, now, ret, recovery_strategies, monitor_vars, agent_vars, cancelling >>

\* line 149: task.start_time = datetime.now()
DriverMarkTime(k) ==
    /\ k \in Drivers
    /\ driver[k].pc = "mark_time"
    /\ LET o == execs[driver[k].execution].tasks[driver[k].i]
       IN task' = [task EXCEPT ![o].start_time = "set"]
    /\ driver' = [driver EXCEPT ![k].pc = "scan", ![k].i = driver[k].i + 1]
    /\ UNCHANGED << workflows, executions, registered_functions, execs,
                    work_queue, now, ret, recovery_strategies, monitor_vars, agent_vars, cancelling >>

\* the task and the future of the item driver k's collection loop is at
CollectedTask(k) ==
    TaskById(execs[driver[k].execution].tasks,
             driver[k].running_tasks[driver[k].i])

CollectedFuture(k) == driver[k].future[driver[k].running_tasks[driver[k].i]]

\* lines 157 and 165: task.status = COMPLETED or FAILED
DriverCollectStatus(k) ==
    /\ k \in Drivers
    /\ driver[k].pc = "collect"
    /\ driver[k].running_tasks # << >>
    /\ FutureDone(CollectedFuture(k))
    /\ LET o == CollectedTask(k)
       IN task' = [task EXCEPT ![o].status =
                      Collected(task[o], CollectedFuture(k)).status]
    /\ driver' = [driver EXCEPT ![k].pc = "collect_result"]
    /\ UNCHANGED << workflows, executions, registered_functions, execs,
                    work_queue, now, ret, recovery_strategies, monitor_vars, agent_vars, cancelling >>

\* lines 158 and 166: task.result = result, or task.error = str(e)
DriverCollectResult(k) ==
    /\ k \in Drivers
    /\ driver[k].pc = "collect_result"
    /\ LET o == CollectedTask(k)
           t == Collected(task[o], CollectedFuture(k))
       IN task' = [task EXCEPT ![o].result = t.result, ![o].error = t.error]
    /\ driver' = [driver EXCEPT ![k].pc = "collect_time"]
    /\ UNCHANGED << workflows, executions, registered_functions, execs,
                    work_queue, now, ret, recovery_strategies, monitor_vars, agent_vars, cancelling >>

\* lines 159-162 and 167-169: task.end_time = datetime.now(), then the
\* driver's own bookkeeping and the next item or the loop test
DriverCollectTime(k) ==
    /\ k \in Drivers
    /\ driver[k].pc = "collect_time"
    /\ LET d == driver[k]
           e == execs[d.execution]
           id == d.running_tasks[d.i]
           o == CollectedTask(k)
           last == d.i = Len(d.running_tasks)
           dd == [d EXCEPT
                    !.pc = "collect",
                    !.completed_tasks = d.completed_tasks \cup {id},
                    !.running_tasks = Without(d.running_tasks, id),
                    !.future[id] = None]
       IN /\ task' = [task EXCEPT ![o].end_time =
                         Collected(task[o], CollectedFuture(k)).end_time]
          /\ driver' = [driver EXCEPT ![k] =
                IF last THEN WhileTest(dd, e) ELSE dd]
    /\ UNCHANGED << workflows, executions, registered_functions, execs,
                    work_queue, now, ret, recovery_strategies, monitor_vars, agent_vars, cancelling >>

AlwaysCompleted(e) == COMPLETED

\* lines 174-179: the status the driver gives execution e on loop exit
FinalStatus(e) ==
    IF \E j \in 1..Len(e.tasks) : task[e.tasks[j]].status = FAILED
    THEN FAILED ELSE COMPLETED

DriverFinal(k) ==
    /\ k \in Drivers
    /\ driver[k].pc = "final"
    /\ execs' = [execs EXCEPT ![driver[k].execution].status =
                     FinalStatus(execs[driver[k].execution])]
    /\ driver' = [driver EXCEPT ![k].pc = "finally"]
    /\ UNCHANGED << workflows, executions, registered_functions, task,
                    work_queue, now, ret,
                    recovery_strategies,
                    monitor_vars, agent_vars, cancelling >>

\* lines 186-188: finally: execution.end_time = datetime.now()
DriverFinally(k) ==
    /\ k \in Drivers
    /\ driver[k].pc = "finally"
    /\ execs' = [execs EXCEPT ![driver[k].execution].end_time = "set"]
    /\ driver' = [driver EXCEPT ![k].pc = "done"]
    /\ UNCHANGED << workflows, executions, registered_functions, task,
                    work_queue, now, ret,
                    recovery_strategies,
                    monitor_vars, agent_vars, cancelling >>

\* ------------------------------------------------------------ worker pool
Executing ==
    { x \in Drivers \X AllTaskIds : driver[x[1]].future[x[2]] = "executing" }

\* an engine that answers for an operation nobody registered
EnterTaskDefaults(o) ==
    IF TaskSpecOf(o).function \notin DOMAIN registered_functions
    THEN "returned" ELSE "executing"

\* lines 192-193: what _execute_task does on entry for task o
EnterTask(o) ==
    IF TaskSpecOf(o).function \notin DOMAIN registered_functions
    THEN "unregistered" ELSE "executing"

\* a pool that starts a thread for every work item
WorkerStartUnbounded ==
    /\ work_queue # << >>
    /\ LET k == Head(work_queue)[1]
           id == Head(work_queue)[2]
           o == TaskById(execs[driver[k].execution].tasks, id)
       IN driver' = [driver EXCEPT ![k].future[id] = EnterTask(o)]
    /\ work_queue' = Tail(work_queue)
    /\ UNCHANGED << workflows, executions, registered_functions, execs, task,
                    now, ret, recovery_strategies,
                    monitor_vars, agent_vars, cancelling >>

\* a pool thread takes the oldest work item and enters _execute_task
WorkerStart ==
    /\ work_queue # << >>
    /\ Cardinality(Executing) < max_workers
    /\ LET k == Head(work_queue)[1]
           id == Head(work_queue)[2]
           o == TaskById(execs[driver[k].execution].tasks, id)
       IN driver' = [driver EXCEPT ![k].future[id] = EnterTask(o)]
    /\ work_queue' = Tail(work_queue)
    /\ UNCHANGED << workflows, executions, registered_functions, execs, task,
                    now, ret,
                    recovery_strategies,
                    monitor_vars, agent_vars, cancelling >>

\* lines 195-196: func(**task.parameters) returns or raises; a callable that
\* hangs does neither
WorkerFinish(k, id) ==
    /\ k \in Drivers
    /\ driver[k].future[id] = "executing"
    /\ LET o == TaskById(execs[driver[k].execution].tasks, id)
           func == registered_functions[TaskSpecOf(o).function]
       IN /\ func # "hangs"
          /\ driver' = [driver EXCEPT ![k].future[id] =
                        IF func = "raises" THEN "raised" ELSE "returned"]
    /\ UNCHANGED << workflows, executions, registered_functions, execs, task,
                    work_queue, now, ret,
                    recovery_strategies,
                    monitor_vars, agent_vars, cancelling >>

\* ------------------------------------------------------------------- spec
\* The caller registers its operations before it starts executions, as every
\* caller of the engine does.
RegisterBeforeStart(name, func) ==
    /\ execs = << >>
    /\ register_function(name, func)

\* the steps of the driver threads and of the pool's workers
Threads ==
    \/ \E k \in 1..MaxExecs : DriverStart(k)
    \/ \E k \in 1..MaxExecs : DriverScan(k)
    \/ \E k \in 1..MaxExecs : DriverMark(k)
    \/ \E k \in 1..MaxExecs : DriverCollect(k)
    \/ \E k \in 1..MaxExecs : DriverFinal(k)
    \/ \E k \in 1..MaxExecs : DriverFinally(k)
    \/ WorkerStart
    \/ \E k \in 1..MaxExecs, id \in AllTaskIds : WorkerFinish(k, id)

Next ==
    \/ Tick
    \/ \E r \in Registrations : RegisterBeforeStart(r[1], r[2])
    \/ \E w \in WorkflowNames : create_workflow(w)
    \/ \E w \in WorkflowNames \cup {UndefinedName} : execute_workflow(w, NoId)
    \/ \E id \in AllIds : cancel_execution(id)
    \/ Threads

Spec == Init /\ [][Next]_vars

\* A caller that starts every workflow at most once: it registers operations
\* that return, raise or hang (or leaves them unregistered), defines the
\* chain and the three independent tasks, and starts each of them once, so
\* that the executions run concurrently on one engine and one pool.
RegistrationsDistinct ==
    { <<"f_a", "returns">>, <<"f_a", "raises">>, <<"f_a", "hangs">>,
      <<"f_b", "returns">>, <<"f_b", "raises">>, <<"f_c", "returns">> }
DistinctNames == {"chain", "fan"}

CreateBeforeStart(w) ==
    /\ execs = << >>
    /\ create_workflow(w)

ExecuteOnce(w) ==
    /\ \A x \in DOMAIN execs : execs[x].workflow_id # w
    /\ execute_workflow(w, NoId)

NextDistinct ==
    \/ \E r \in RegistrationsDistinct : RegisterBeforeStart(r[1], r[2])
    \/ \E w \in DistinctNames : CreateBeforeStart(w)
    \/ \E w \in DistinctNames : ExecuteOnce(w)
    \/ Threads

\* A caller with an ErrorRecoveryManager: it registers operations and
\* recovery strategies, defines the chain, starts it once and calls
\* attempt_recovery on the tasks it built.
BuiltTasks == { o \in TaskObjs : o[1] \in DOMAIN workflows }

RecoverBuilt(o, error_type) ==
    /\ o \in BuiltTasks
    /\ attempt_recovery(o, error_type)

NextRecovery ==
    \/ \E r \in Registrations : RegisterBeforeStart(r[1], r[2])
    \/ \E w \in WorkflowNames : CreateBeforeStart(w)
    \/ \E w \in WorkflowNames : ExecuteOnce(w)
    \/ \E r \in Strategies : register_recovery_strategy(r[1], r[2])
    \/ \E o \in TaskObjs, et \in ErrorTypes : RecoverBuilt(o, et)
    \/ Threads

\* The driver threads and the pool's workers are scheduled fairly.
Fairness ==
    /\ \A k \in 1..MaxExecs :
          /\ WF_vars(DriverStart(k)) /\ WF_vars(DriverScan(k))
          /\ WF_vars(DriverMark(k)) /\ WF_vars(DriverCollect(k))
          /\ WF_vars(DriverFinal(k)) /\ WF_vars(DriverFinally(k))
          /\ \A id \in TaskIds : WF_vars(WorkerFinish(k, id))
    /\ WF_vars(WorkerStart)

SpecDistinct == Init /\ [][NextDistinct]_vars /\ Fairness

SpecRecovery == Init /\ [][NextRecovery]_vars /\ Fairness

\* A caller with an ErrorRecoveryManager that starts the chain more than
\* once and, when a driver has finished and the first task has failed for
\* the first time, resets it with a strategy that recovers.
RecoverFirst(w) ==
    /\ recovery_strategies = ("ValueError" :> "recovers")
    /\ \E k \in Drivers :
          /\ driver[k].pc = "done"
          /\ InSeq(<<w, 1>>, execs[driver[k].execution].tasks)
    /\ task[<<w, 1>>].status = FAILED
    /\ task[<<w, 1>>].retry_count = 0
    /\ RecoverBuilt(<<w, 1>>, "ValueError")

NextRerun ==
    \/ Tick
    \/ \E r \in Registrations : RegisterBeforeStart(r[1], r[2])
    \/ \E w \in WorkflowNames : CreateBeforeStart(w)
    \/ \E w \in WorkflowNames : execute_workflow(w, NoId)
    \/ register_recovery_strategy("ValueError", "recovers")
    \/ \E w \in WorkflowNames : RecoverFirst(w)
    \/ Threads

SpecRerun == Init /\ [][NextRerun]_vars /\ Fairness

\* ----------------------------------------------------------- orchestrator
\* agent_orchestrator.py 65-71: the five operations the orchestrator
\* registers when it is constructed.  update_inventory(product_id, quantity)
\* is called with the order details, which carry customer_info as well; the
\* model lets it raise or return.
OrchestratorFunctions ==
    { "search_products", "generate_recommendations", "process_order",
      "update_inventory", "customer_support" }

register_workflow_functions(outcome) ==
    /\ registered_functions = << >>
    /\ execs = << >>
    /\ registered_functions' =
           [f \in OrchestratorFunctions |->
               IF f = "update_inventory" THEN outcome ELSE "returns"]
    /\ UNCHANGED << workflows, executions, execs, task, driver, work_queue,
                    now, ret, recovery_strategies,
                    monitor_vars, agent_vars, cancelling >>

\* agent_orchestrator.py 209-231, for a product in stock: build the five
\* tasks, create_workflow("order_processing", tasks), execute_workflow
handle_order_placement ==
    /\ registered_functions # << >>
    /\ Len(execs) < MaxExecs
    /\ LET w == "order_processing"
           tasks == [i \in 1..Len(OrderTasks) |-> << OrderBuilds[Len(execs) + 1], i >>]
           id == DefaultId(w, now)
           execution == [id |-> id, workflow_id |-> w, status |-> RUNNING,
                         tasks |-> tasks, end_time |-> None]
       IN /\ workflows' = [x \in DOMAIN workflows \cup {w} |->
                              IF x = w THEN tasks ELSE workflows[x]]
          /\ execs' = Append(execs, execution)
          /\ executions' = [x \in DOMAIN executions \cup {id} |->
                               IF x = id THEN Len(execs) + 1 ELSE executions[x]]
          /\ driver' = Append(driver, NewDriver)
          /\ ret' = [op |-> "execute_workflow", id |-> id, ok |-> TRUE]
          /\ task' = build_tasks({ tasks[i] : i \in DOMAIN tasks })
    /\ UNCHANGED << registered_functions, work_queue, now,
                    recovery_strategies,
                    monitor_vars, agent_vars, cancelling >>

OrderIds == { DefaultId("order_processing", t) : t \in 0..MaxTime }

\* An orchestrator that places orders and is stopped: stop (lines 81-90)
\* calls cancel_execution for the executions it started.
NextOrchestrator ==
    \/ Tick
    \/ \E outcome \in {"returns", "raises"} : register_workflow_functions(outcome)
    \/ handle_order_placement
    \/ \E id \in OrderIds : CancelTest(id)
    \/ CancelMark
    \/ Threads

SpecOrchestrator == Init /\ [][NextOrchestrator]_vars

\* A caller that defines the task lists of GraphMenu and starts them, the
\* same one twice or two of them, in the same second or not.
GraphNames == DOMAIN GraphMenu

\* the caller builds the list and hands it to create_workflow (lines 99-103)
\* before it starts anything
CreateGraph(w) ==
    /\ execs = << >>
    /\ workflows' = [x \in DOMAIN workflows \cup {w} |->
                        IF x = w THEN [i \in 1..Len(WorkflowMenu[w]) |-> <<w, i>>]
                        ELSE workflows[x]]
    /\ task' = build_tasks(ObjsOf(w))
    /\ UNCHANGED << executions, registered_functions, execs, driver,
                    work_queue, now, ret, recovery_strategies,
                    monitor_vars, agent_vars, cancelling >>

GraphIds == { DefaultId(w, t) : w \in GraphNames, t \in 0..MaxTime }

NextGraphs ==
    \/ Tick
    \/ \E r \in Registrations : RegisterBeforeStart(r[1], r[2])
    \/ \E w \in GraphNames : CreateGraph(w)
    \/ \E w \in GraphNames : execute_workflow(w, NoId)
    \/ Threads

SpecGraphs == Init /\ [][NextGraphs]_vars /\ Fairness

\* A caller that defines the chain and the empty task list, starts them and
\* then polls; the threads are scheduled fairly.
EmptyNames == {"chain", "empty"}

NextEmpty ==
    \/ Tick
    \/ \E r \in Registrations : RegisterBeforeStart(r[1], r[2])
    \/ \E w \in EmptyNames : CreateBeforeStart(w)
    \/ \E w \in EmptyNames : execute_workflow(w, NoId)
    \/ Threads

SpecEmpty == Init /\ [][NextEmpty]_vars /\ Fairness

\* A caller that defines workflows through WorkflowBuilder or with a task
\* list of its own, under the name "chain" or under the empty name, and
\* starts each once.
BuilderNames == {"chain", EmptyName}

\* WorkflowBuilder.build() returns the task list; it raises ValueError when
\* workflow_id is None or empty (lines 349-350)
build(workflow_id) == workflow_id # EmptyName

\* engine.create_workflow(builder.workflow_id, builder.build())
BuildAndCreate(w) ==
    /\ build(w)
    /\ CreateBeforeStart(w)

NextBuilder ==
    \/ \E r \in Registrations : RegisterBeforeStart(r[1], r[2])
    \/ \E w \in BuilderNames : BuildAndCreate(w)
    \/ \E w \in BuilderNames : CreateBeforeStart(w)
    \/ \E w \in BuilderNames : ExecuteOnce(w)
    \/ Threads

SpecBuilder == Init /\ [][NextBuilder]_vars

\* One execution of the chain with every attribute write of the driver a
\* step of its own, as a reader in another thread sees them.
AttributeWrites ==
    \/ \E k \in 1..MaxExecs : DriverMarkStatus(k)
    \/ \E k \in 1..MaxExecs : DriverMarkTime(k)
    \/ \E k \in 1..MaxExecs : DriverCollectStatus(k)
    \/ \E k \in 1..MaxExecs : DriverCollectResult(k)
    \/ \E k \in 1..MaxExecs : DriverCollectTime(k)

NextReads ==
    \/ \E r \in Registrations : RegisterBeforeStart(r[1], r[2])
    \/ \E w \in WorkflowNames : CreateBeforeStart(w)
    \/ \E w \in WorkflowNames : ExecuteOnce(w)
    \/ Threads
    \/ AttributeWrites

SpecReads == Init /\ [][NextReads]_vars

\* One execution of the chain and a caller thread that cancels it, the test
\* and the assignment of cancel_execution being steps of their own.
NextCancel ==
    \/ \E r \in Registrations : RegisterBeforeStart(r[1], r[2])
    \/ \E w \in WorkflowNames : CreateBeforeStart(w)
    \/ \E w \in WorkflowNames : ExecuteOnce(w)
    \/ \E id \in AllIds : CancelTest(id)
    \/ CancelMark
    \/ Threads

SpecCancel == Init /\ [][NextCancel]_vars

\* ---------------------------------------------------------------- claims
Terminal == {COMPLETED, FAILED}
Started(k) == driver[k].pc # "start"
ExecutionOf(k) == execs[driver[k].execution]
\* the tasks of driver k's execution that carry id
TasksWithId(k, id) ==
    { o \in TaskObjs : InSeq(o, ExecutionOf(k).tasks) /\ TaskSpecOf(o).id = id }
\* the task with this id has been recorded Completed or Failed (lines
\* 157-159, 165-167 stamp end_time with the terminal status)
ReachedTerminal(k, id) ==
    \E o \in TasksWithId(k, id) : task[o].end_time # None

\* C1: within one execution a task is Running (submitted to the pool by the
\* driver, or marked RUNNING) only if every task id in its dependencies has
\* already reached a terminal status, which the driver has collected.
C1_DispatchAfterDependencies ==
    \A k \in Drivers : Started(k) =>
        \A o \in TaskObjs : InSeq(o, ExecutionOf(k).tasks) =>
            /\ InSeq(TaskSpecOf(o).id, driver[k].running_tasks) =>
                   \A dep \in TaskSpecOf(o).dependencies :
                       dep \in driver[k].completed_tasks /\ ReachedTerminal(k, dep)
            /\ task[o].status = RUNNING =>
                   \A dep \in TaskSpecOf(o).dependencies : ReachedTerminal(k, dep)

C1_Witness ==
    \E k \in Drivers :
        /\ Started(k)
        /\ InSeq("B", driver[k].running_tasks)
        /\ task[<<"chain", 2>>].status = RUNNING
        /\ "A" \in driver[k].completed_tasks

\* C2: on loop exit the driver sets the execution Failed if a task of the
\* execution is Failed, and Completed otherwise.
C2_FinalStatusIsAggregate ==
    [][\A k \in Drivers :
          (driver[k].pc = "final" /\ driver'[k].pc = "finally") =>
              LET e == execs'[driver[k].execution]
                  failed == { j \in 1..Len(e.tasks) : task'[e.tasks[j]].status = FAILED }
              IN /\ failed # {} => e.status = FAILED
                 /\ failed = {} => e.status = COMPLETED]_vars

C2_Witness ==
    \E k \in Drivers :
        /\ driver[k].pc = "finally"
        /\ ExecutionOf(k).status = FAILED
        /\ task[<<"chain", 1>>].status = FAILED
        /\ task[<<"chain", 2>>].status = COMPLETED

\* C3: a Failed dependency unblocks its dependents.  A driver that has
\* collected A as Failed submits B (depending only on A) when its for loop
\* reaches B still Pending; B is submitted only after A was collected; and
\* the driver finalizes the execution as Failed when A is Failed and B is
\* Completed.
C3_FailedDependencyUnblocks ==
    [][\A k \in Drivers : Started(k) =>
          LET d == driver[k]
              a == <<"chain", 1>>
              b == <<"chain", 2>>
          IN /\ ( /\ d.pc = "scan" /\ d.i <= 2 /\ driver'[k] # d
                  /\ "A" \in d.completed_tasks /\ task[a].status = FAILED
                  /\ task[b].status = PENDING /\ ~InSeq("B", d.running_tasks) )
                 => InSeq("B", driver'[k].running_tasks)
             /\ InSeq("B", driver'[k].running_tasks) => "A" \in d.completed_tasks
             /\ ( /\ d.pc = "final" /\ driver'[k].pc = "finally"
                  /\ task[a].status = FAILED /\ task[b].status = COMPLETED )
                 => execs'[d.execution].status = FAILED]_vars

C3_Witness ==
    \E k \in Drivers :
        /\ driver[k].pc = "done"
        /\ driver[k].completed_tasks = {"A", "B"}
        /\ task[<<"chain", 1>>].status = FAILED
        /\ task[<<"chain", 1>>].error = "raised"
        /\ task[<<"chain", 2>>].status = COMPLETED
        /\ ExecutionOf(k).status = FAILED

\* C5: cancel_execution(id) returns True and sets the status Cancelled
\* exactly when the id is known and its execution is Running at the call;
\* otherwise it returns False and the status observed for id is unchanged.
ObservedStatus(id) ==
    IF id \in DOMAIN executions THEN execs[executions[id]].status ELSE None

C5_CancelOnlyRunning ==
    [][\A id \in AllIds :
          (ret' # ret /\ ret'.op = "cancel_execution" /\ ret'.id = id) =>
              /\ ret'.ok <=> ObservedStatus(id) = RUNNING
              /\ ret'.ok => ObservedStatus(id)' = CANCELLED
              /\ ~ret'.ok => ObservedStatus(id)' = ObservedStatus(id)]_vars

C5_Witness ==
    /\ ret.op = "cancel_execution" /\ ret.ok
    /\ ObservedStatus(ret.id) = CANCELLED
    /\ \E k \in Drivers : Started(k) /\ driver[k].running_tasks # << >>

\* C6: after cancel_execution returned True the driver submits no task in
\* any loop iteration it starts afterwards.
C6_NoDispatchAfterCancel ==
    [][\A k \in Drivers :
          (Started(k) /\ driver[k].iteration_cancelled) =>
              Len(driver'[k].running_tasks) <= Len(driver[k].running_tasks)]_vars

\* C7: once the status observed for an execution id is Completed or Failed
\* no engine operation changes the status observed for that id.
C7_TerminalStatusMonotonic ==
    [][\A id \in AllIds :
          ObservedStatus(id) \in Terminal =>
              ObservedStatus(id)' = ObservedStatus(id)]_vars

\* C8: once an execution's status is Cancelled it stays Cancelled.
C8_CancelledIsTerminal ==
    [][\A x \in DOMAIN execs :
          execs[x].status = CANCELLED => execs'[x].status = CANCELLED]_vars

\* what a get_execution_status call shows of execution x: its status and
\* end time and each task's status, result and error
Snapshot(x) ==
    << execs[x].status, execs[x].end_time,
       [j \in 1..Len(execs[x].tasks) |->
           << task[execs[x].tasks[j]].status, task[execs[x].tasks[j]].result,
              task[execs[x].tasks[j]].error >>] >>

\* C9: once the status of an execution is terminal (Completed or Failed, the
\* statuses its driver sets), every later get_execution_status of it shows
\* the same snapshot.
C9_TerminalSnapshotStable ==
    [][\A x \in DOMAIN execs :
          execs[x].status \in Terminal => Snapshot(x)' = Snapshot(x)]_vars

\* C10: execute_workflow on a name that is not defined raises, and stores
\* no execution and starts no driver; an execution is only ever started
\* for a defined name.
C10_UnknownWorkflowRejected ==
    [][(ret' # ret /\ ret'.op = "execute_workflow") =>
          /\ ~ret'.ok => UNCHANGED << executions, execs, driver, work_queue, task >>
          /\ ret'.ok => execs'[executions'[ret'.id]].workflow_id \in DOMAIN workflows]_vars

C10_Witness ==
    /\ ret.op = "execute_workflow" /\ ~ret.ok
    /\ Len(execs) >= 1

\* a step in which execute_workflow stored a new execution
StartsExecution == Len(execs') = Len(execs) + 1
NewExecution == execs'[Len(execs')]

\* C11: every execution that execute_workflow creates starts Running with
\* every task Pending and without result, error or timestamps, also on a
\* second start of a definition.
C11_StartsPending ==
    [][StartsExecution =>
          /\ NewExecution.status = RUNNING
          /\ \A j \in 1..Len(NewExecution.tasks) :
                 LET t == task'[NewExecution.tasks[j]]
                 IN /\ t.status = PENDING
                    /\ t.result = None /\ t.error = None
                    /\ t.start_time = None /\ t.end_time = None]_vars

\* the executions whose task list holds task object o
ExecutionsOf(o) == { x \in DOMAIN execs : InSeq(o, execs[x].tasks) }
\* the drivers of execution x
DriversOf(x) == { k \in Drivers : driver[k].execution = x }

\* C12: executions never share tasks.  A change a driver makes to a task is
\* a change to a task of its own execution only, and a task of an execution
\* that is no longer Pending was submitted by a driver of that execution.
C12_ExecutionsNeverShareTasks ==
    [][/\ \A o \in TaskObjs : task'[o] # task[o] =>
              \A k \in Drivers : driver'[k] # driver[k] =>
                  ExecutionsOf(o) \subseteq {driver[k].execution}
       /\ \A x \in DOMAIN execs : \A j \in 1..Len(execs[x].tasks) :
              LET o == execs[x].tasks[j]
              IN task'[o].status # PENDING =>
                     \E k \in DriversOf(x) :
                         \/ InSeq(TaskSpecOf(o).id, driver'[k].running_tasks)
                         \/ TaskSpecOf(o).id \in driver'[k].completed_tasks]_vars

\* C13: every execute_workflow call without an explicit id returns an id
\* that no earlier call returned, and no entry of the executions map is
\* ever replaced.
C13_ExecutionIdsUnique ==
    [][/\ StartsExecution => NewExecution.id \notin DOMAIN executions
       /\ \A id \in DOMAIN executions : executions'[id] = executions[id]]_vars

\* C14: the id execute_workflow returns is found by get_execution_status
\* from then on, as an execution of that id; an id is found only once
\* execute_workflow has returned it.
C14_ReturnedIdIsFound ==
    [][/\ StartsExecution =>
              /\ ret'.op = "execute_workflow" /\ ret'.ok
              /\ \E id \in AllIds :
                     ret'.id = id /\ get_execution_status(id)' = NewExecution
       /\ \A id \in AllIds :
              /\ get_execution_status(id) # NoExecution =>
                     /\ get_execution_status(id)' # NoExecution
                     /\ get_execution_status(id)'.id = id
              /\ ( /\ get_execution_status(id) = NoExecution
                   /\ get_execution_status(id)' # NoExecution )
                     => StartsExecution /\ ret'.id = id]_vars

C14_Witness ==
    /\ Len(execs) = 2
    /\ ret.op = "cancel_execution"
    /\ get_execution_status(DefaultId("chain", 0)) = execs[1]
    /\ get_execution_status(DefaultId("chain", 1)) = execs[2]
    /\ execs[1].status \in Terminal
    /\ execs[1].end_time # None

\* driver k is at an item of its collection loop whose future is f
Collecting(k, id, f) ==
    /\ driver[k].pc = "collect"
    /\ driver[k].running_tasks # << >>
    /\ driver[k].running_tasks[driver[k].i] = id
    /\ driver[k].future[id] = f
\* a step of driver thread k itself (a worker's step changes its futures)
DriverSteps(k) ==
    << driver'[k].pc, driver'[k].i, driver'[k].running_tasks >>
        # << driver[k].pc, driver[k].i, driver[k].running_tasks >>
\* the driver has left its while loop
LoopExited(d) == d.pc \in {"final", "finally", "done"}
\* C15: an error raised by a task's operation is contained at the task
\* boundary.  The driver step that collects it records the task Failed with
\* the error, the execution stays Running and the driver stays in its loop
\* unless every task is terminal; a driver that finds a Pending task with
\* all dependencies collected submits it, whatever failed before; and the
\* driver leaves its loop only through the loop test, having collected
\* every task of the execution as Completed or Failed.
C15_TaskErrorContained ==
    [][\A k \in Drivers : (Started(k) /\ DriverSteps(k)) =>
          LET d == driver[k]
              e == ExecutionOf(k)
          IN /\ \A id \in TaskIds : Collecting(k, id, "raised") =>
                    LET o == TaskById(e.tasks, id)
                    IN /\ task'[o].status = FAILED
                       /\ task'[o].error = "raised"
                       /\ id \in driver'[k].completed_tasks
                       /\ execs' = execs
                       /\ driver'[k].pc \in {"collect", "scan", "final"}
             /\ ( /\ d.pc = "scan"
                  /\ \E j \in 1..Len(e.tasks) : task[e.tasks[j]].status = FAILED )
                   => \A j \in d.i..Len(e.tasks) :
                          ( /\ ReadyToRun(d, e.tasks[j])
                            /\ \A h \in d.i..(j - 1) : ~ReadyToRun(d, e.tasks[h]) )
                          => /\ driver'[k].pc = "mark" /\ driver'[k].i = j
                             /\ InSeq(TaskSpecOf(e.tasks[j]).id,
                                      driver'[k].running_tasks)
             /\ ( ~LoopExited(d) /\ LoopExited(driver'[k]) )
                   => /\ driver'[k].pc = "final"
                      /\ \A j \in 1..Len(e.tasks) :
                             /\ TaskSpecOf(e.tasks[j]).id
                                    \in driver'[k].completed_tasks
                             /\ task'[e.tasks[j]].end_time # None]_vars

C15_Witness ==
    \E k \in Drivers :
        /\ Started(k)
        /\ ExecutionOf(k).workflow_id = "fan"
        /\ driver[k].pc = "done"
        /\ task[<<"fan", 1>>].status = FAILED
        /\ task[<<"fan", 1>>].error = "raised"
        /\ task[<<"fan", 2>>].status = FAILED
        /\ task[<<"fan", 3>>].status = COMPLETED
        /\ ExecutionOf(k).status = FAILED

NoOperationHangs ==
    \A f \in DOMAIN registered_functions : registered_functions[f] # "hangs"
HasUnknownOperation(x) ==
    \E j \in 1..Len(execs[x].tasks) :
        TaskSpecOf(execs[x].tasks[j]).function \notin DOMAIN registered_functions
Finalized(x) ==
    /\ x \in DOMAIN execs
    /\ execs[x].status \in Terminal
    /\ execs[x].end_time # None
    /\ \A j \in 1..Len(execs[x].tasks) :
           task[execs[x].tasks[j]].status \in Terminal

\* C16: a task whose operation name is not registered when a worker
\* executes it raises in _execute_task without calling anything, and the
\* driver records it Failed with that error and stays in its loop with the
\* execution untouched; and an execution with such a task, none of whose
\* operations hangs, still gets every task, the siblings included,
\* Completed or Failed and is finalized.
C16_UnknownOperationFailsTask ==
    /\ [][\A k \in Drivers : Started(k) => \A id \in TaskIds :
              LET o == TaskById(ExecutionOf(k).tasks, id)
              IN /\ ( /\ driver[k].future[id] = "queued"
                      /\ driver'[k].future[id] # "queued" )
                       => driver'[k].future[id] =
                              IF TaskSpecOf(o).function
                                     \in DOMAIN registered_functions
                              THEN "executing" ELSE "unregistered"
                 /\ ( DriverSteps(k) /\ Collecting(k, id, "unregistered") )
                       => /\ task'[o].status = FAILED
                          /\ task'[o].error = "unregistered"
                          /\ id \in driver'[k].completed_tasks
                          /\ execs' = execs
                          /\ driver'[k].pc \in {"collect", "scan", "final"}]_vars
    /\ \A x \in 1..MaxExecs :
          []((x \in DOMAIN execs /\ NoOperationHangs /\ HasUnknownOperation(x))
                => <>Finalized(x))

\* C17: in every state a task has a result only while it is Completed and
\* an error only while it is Failed.
C17_ResultAndErrorMatchStatus ==
    \A o \in TaskObjs :
        /\ task[o].result # None => task[o].status = COMPLETED
        /\ task[o].error # None => task[o].status = FAILED

\* the operation of task o never finishes, so o exceeds any timeout
ExceedsTimeout(o) ==
    /\ TaskSpecOf(o).function \in DOMAIN registered_functions
    /\ registered_functions[TaskSpecOf(o).function] = "hangs"

\* C18: a Running task whose operation never finishes is eventually Failed,
\* and no task stays Running forever.
C18_TimedOutTaskFails ==
    \A o \in TaskObjs :
        /\ (task[o].status = RUNNING /\ ExceedsTimeout(o))
               ~> (task[o].status = FAILED)
        /\ (task[o].status = RUNNING) ~> (task[o].status # RUNNING)

\* C19: at any time at most max_workers task operations are being executed
\* on the engine, over all its executions, however many tasks were
\* submitted.
C19_PoolBoundsParallelism == Cardinality(Executing) <= max_workers

C19_Witness ==
    /\ Cardinality(Executing) = max_workers
    /\ Len(work_queue) >= 2
    /\ \E x, y \in Executing : x[1] # y[1]
    /\ \E k \in Drivers : Head(work_queue)[1] = k /\ driver[k].pc = "collect"

\* C20: when every operation returns or raises, the driver of every
\* execution eventually exits and the execution is then Completed or Failed
\* with every task Completed or Failed (the workflows have unique task ids
\* and acyclic dependencies on their own tasks).
C20_DriverTerminates ==
    \A x \in 1..MaxExecs :
        []((x \in DOMAIN execs /\ NoOperationHangs) =>
              <>(Finalized(x) /\ driver[x].pc = "done"))

\* ---------------------------------------------------------------- recovery
\* this step is a call attempt_recovery(o, error) with an error of type
\* error_type: the call is what was returned last, and either the returned
\* value is new or a task changed without any driver taking a step
RecoveryCall(o, error_type) ==
    /\ ret'.op = "attempt_recovery"
    /\ ret'.task = o
    /\ ret'.error_type = error_type
    /\ \/ ret' # ret
       \/ task' # task /\ driver' = driver

\* the strategy registered for error_type returns True when called
StrategyRecovers(error_type) ==
    /\ error_type \in DOMAIN recovery_strategies
    /\ recovery_strategies[error_type] = "recovers"

\* C21: retry_count never exceeds max_retries, and a call of attempt_recovery
\* that succeeds resets the task to Pending and adds one to retry_count only
\* while retry_count is still below max_retries.
C21_RetryBudget ==
    [][/\ \A o \in TaskObjs : task'[o].retry_count <= max_retries
       /\ \A o \in TaskObjs : \A error_type \in ErrorTypes :
             (RecoveryCall(o, error_type) /\ ret'.ok)
                => /\ task[o].retry_count < max_retries
                   /\ task'[o].status = PENDING
                   /\ task'[o].retry_count = task[o].retry_count + 1]_vars

\* C22: a call of attempt_recovery whose registered strategy returns True
\* returns True, sets the task Pending, adds exactly one to retry_count and
\* clears the error; no other field of the task and no other task changes.
C22_RecoveryResetsTask ==
    [][\A o \in TaskObjs : \A error_type \in ErrorTypes :
          (RecoveryCall(o, error_type) /\ StrategyRecovers(error_type))
             => /\ ret'.ok
                /\ task' = [task EXCEPT
                               ![o] = [status |-> PENDING,
                                       result |-> task[o].result,
                                       error |-> None,
                                       start_time |-> task[o].start_time,
                                       end_time |-> task[o].end_time,
                                       retry_count |-> task[o].retry_count + 1]]
      ]_vars

\* a Failed task was reset by a call that returned True
C22_Witness ==
    /\ ret.op = "attempt_recovery"
    /\ ret.ok
    /\ ret.error_type \in DOMAIN recovery_strategies
    /\ recovery_strategies[ret.error_type] = "recovers"
    /\ task[ret.task].status = PENDING
    /\ task[ret.task].retry_count = 1
    /\ task[ret.task].error = None
    /\ task[ret.task].end_time # None

\* C23: a call of attempt_recovery with no strategy registered for the
\* error's type, or whose strategy returns False or raises, returns False
\* and leaves every task's status, retry_count and error as they were.
C23_FailedRecoveryChangesNothing ==
    [][\A o \in TaskObjs : \A error_type \in ErrorTypes :
          (RecoveryCall(o, error_type) /\ ~StrategyRecovers(error_type))
             => /\ ~ret'.ok
                /\ \A p \in TaskObjs :
                      /\ task'[p].status = task[p].status
                      /\ task'[p].retry_count = task[p].retry_count
                      /\ task'[p].error = task[p].error]_vars

\* a call whose strategy raised returned False on a task that is still
\* Failed with its error
C23_Witness ==
    /\ ret.op = "attempt_recovery"
    /\ ~ret.ok
    /\ ret.error_type \in DOMAIN recovery_strategies
    /\ recovery_strategies[ret.error_type] = "raises"
    /\ task[ret.task].status = FAILED
    /\ task[ret.task].error # None
    /\ task[ret.task].retry_count = 0

\* ----------------------------------------------------------------- metrics
NextMetrics ==
    \/ \E metric_name \in MetricNames : \E value \in MetricValues :
          record_metric(metric_name, value)
    \/ AdvanceClock
    \/ \E metric_name \in QueryNames : \E time_window \in Windows :
          get_metric_summary(metric_name, time_window)

SpecMetrics == Init /\ [][NextMetrics]_vars

\* the samples of metric_name a call with time_window asks about: all of them
\* without a window, else those later than now - time_window
InRange(metric_name, time_window) ==
    { i \in 1..Len(metrics[metric_name]) :
         \/ time_window = NoWindow
         \/ fromisoformat(metrics[metric_name][i].timestamp)
                > clock - time_window[1] }

NumericIn(metric_name, I) ==
    { i \in I : IsNumeric(metrics[metric_name][i].value) }

RECURSIVE SumOver(_, _)
SumOver(metric_name, I) ==
    IF I = {} THEN 0
    ELSE LET i == CHOOSE j \in I : TRUE
         IN  metrics[metric_name][i].value[2] + SumOver(metric_name, I \ {i})

\* C24: without a time window the summary of a recorded name with at least
\* one numeric sample has count = the number of samples, min and max = the
\* smallest and largest numeric sample, avg = the arithmetic mean of the
\* numeric samples and latest = the numeric sample recorded last.
C24_SummaryStatistics ==
    \A metric_name \in MetricNames :
        metric_name \in DOMAIN metrics =>
            LET records == metrics[metric_name]
                N == NumericIn(metric_name, 1..Len(records))
                V(i) == records[i].value[2]
                s == metric_summary(metric_name, NoWindow)
            IN  N # {} =>
                  /\ DOMAIN s = {"count", "min", "max", "avg", "latest"}
                  /\ s.count = Len(records)
                  /\ \E i \in N : s.min = V(i)
                  /\ \A i \in N : s.min <= V(i)
                  /\ \E i \in N : s.max = V(i)
                  /\ \A i \in N : s.max >= V(i)
                  /\ s.avg[2] > 0
                  /\ s.avg[1] * Cardinality(N)
                        = SumOver(metric_name, N) * s.avg[2]
                  /\ \E i \in N : /\ s.latest = V(i)
                                  /\ \A j \in N : j <= i

\* a call without a window returned the summary of 10 and 30 recorded with a
\* non-numeric sample between or around them
C24_Witness ==
    /\ summary.metric_name \in DOMAIN metrics
    /\ summary.time_window = NoWindow
    /\ Len(metrics[summary.metric_name]) = 3
    /\ \E i \in 1..3 : ~IsNumeric(metrics[summary.metric_name][i].value)
    /\ summary.result = [count |-> 3, min |-> 10, max |-> 30,
                         avg |-> << 40, 2 >>, latest |-> 30]

\* C25: the summary of a name that was never recorded is empty, and the
\* summary is count-only whenever no sample in the requested range is
\* numeric, also when the range holds no sample at all.
C25_EmptyAndCountOnly ==
    \A metric_name \in QueryNames : \A time_window \in Windows :
        LET s == metric_summary(metric_name, time_window)
        IN  IF metric_name \notin DOMAIN metrics
            THEN s = << >>
            ELSE LET I == InRange(metric_name, time_window)
                 IN  NumericIn(metric_name, I) = {}
                        => s = [count |-> Cardinality(I)]

\* ------------------------------------------------------------- definitions
\* C26: a workflow is never stored under the empty name, and no execution of
\* the empty name is ever started.
C26_EmptyNameRejected ==
    /\ EmptyName \notin DOMAIN workflows
    /\ \A x \in DOMAIN execs : execs[x].workflow_id # EmptyName

\* every task of execution x is Completed or Failed
AllTasksTerminal(x) ==
    \A j \in 1..Len(execs[x].tasks) :
        task[execs[x].tasks[j]].status \in Terminal

\* C27: in every state an execution whose status is Completed or Failed has
\* only tasks that are Completed or Failed, and an execution that was not
\* cancelled and whose tasks are all Completed or Failed is not Running.
C27_StatusMatchesTasks ==
    \A x \in DOMAIN execs :
        /\ execs[x].status \in Terminal => AllTasksTerminal(x)
        /\ (AllTasksTerminal(x) /\ execs[x].status # CANCELLED)
              => execs[x].status # RUNNING

\* C28: whenever a reader looks at the execution get_execution_status
\* returns, a Running task has its start time, a Completed task its result
\* and end time, and a Failed task its error and end time.
C28_ConsistentReads ==
    \A id \in DOMAIN executions :
        LET e == get_execution_status(id)
        IN  \A j \in 1..Len(e.tasks) :
              LET t == task[e.tasks[j]]
              IN  /\ t.status = RUNNING => t.start_time # None
                  /\ t.status = COMPLETED
                        => (t.result # None /\ t.end_time # None)
                  /\ t.status = FAILED
                        => (t.error # None /\ t.end_time # None)

\* driver k's step submits the operation of the task with this id
Submits(k, id) ==
    /\ ~InSeq(id, driver[k].running_tasks)
    /\ InSeq(id, driver'[k].running_tasks)

\* C29: within one execution a task is dispatched at most once.  A driver
\* submits a task only while it is Pending, not in flight and not collected
\* by any driver of the execution, and no driver step changes a retry_count.
C29_DispatchedAtMostOnce ==
    [][\A k \in Drivers : (Started(k) /\ DriverSteps(k)) =>
          /\ \A id \in TaskIds : Submits(k, id) =>
                /\ task[TaskById(ExecutionOf(k).tasks, id)].status = PENDING
                /\ \A h \in DriversOf(driver[k].execution) :
                      /\ ~InSeq(id, driver[h].running_tasks)
                      /\ id \notin driver[h].completed_tasks
          /\ \A o \in TaskObjs :
                task'[o].retry_count = task[o].retry_count]_vars

\* C30: a task's status changes only from Pending to Running, from Running
\* to Completed when a driver collects an operation that returned, and from
\* Running to Failed when a driver collects one that raised or was unknown.
C30_TaskStateMachine ==
    [][\A o \in TaskObjs : task'[o].status # task[o].status =>
          \/ /\ task[o].status = PENDING
             /\ task'[o].status = RUNNING
          \/ /\ task[o].status = RUNNING
             /\ task'[o].status = COMPLETED
             /\ \E k \in Drivers : \E id \in TaskIds :
                   /\ Collecting(k, id, "returned")
                   /\ o = TaskById(ExecutionOf(k).tasks, id)
          \/ /\ task[o].status = RUNNING
             /\ task'[o].status = FAILED
             /\ \E k \in Drivers : \E id \in TaskIds :
                   /\ \/ Collecting(k, id, "raised")
                      \/ Collecting(k, id, "unregistered")
                   /\ o = TaskById(ExecutionOf(k).tasks, id)]_vars

\* ------------------------------------------------------------------- agent
NextAgent ==
    \/ \E new_state \in AgentStates : update_state(new_state)
    \/ \E t \in AgentTasks : add_task(t)
    \/ process_next_task
    \/ \E user_input \in UserInputs : handle_user_input(user_input)
    \/ reset

SpecAgent == Init /\ [][NextAgent]_vars

\* q without its oldest task, the other tasks in their order
WithoutOldest(q) == [i \in 1..(Len(q) - 1) |-> q[i + 1]]

\* C32 as stated: process_next_task on a non-empty queue removes exactly the
\* oldest task, returns that task's result and leaves the state IDLE; on an
\* empty queue it returns None and leaves state and queue as they were.
C32_ProcessNextTask ==
    LET r == ProcessNext(state, task_queue)
    IN  IF task_queue = << >>
        THEN /\ r.result = NoResult
             /\ r.state = state
             /\ r.task_queue = task_queue
        ELSE /\ r.task_queue = WithoutOldest(task_queue)
             /\ r.result = ExecuteTaskResult(task_queue[1])
             /\ r.state = IDLE

\* C32, amended: process_next_task on a non-empty queue removes exactly the
\* oldest task and keeps the order of the others; when executing that task
\* returns, it returns the task's result and leaves the state IDLE; when
\* executing it raises, it returns an error dict and leaves the state ERROR.
\* On an empty queue it returns None and leaves state and queue as they were.
C32_ProcessNextTaskOrError ==
    LET r == ProcessNext(state, task_queue)
    IN  IF task_queue = << >>
        THEN /\ r.result = NoResult
             /\ r.state = state
             /\ r.task_queue = task_queue
        ELSE /\ r.task_queue = WithoutOldest(task_queue)
             /\ ~Raises(task_queue[1])
                   => /\ r.result = ExecuteTaskResult(task_queue[1])
                      /\ r.state = IDLE
             /\ Raises(task_queue[1])
                   => /\ DOMAIN r.result = {"error"}
                      /\ r.state = ERROR

\* process_next_task returned the error of the oldest task and left ERROR
\* with the two newer tasks still queued
C32_Witness ==
    /\ returned.op = "process_next_task"
    /\ DOMAIN returned.result = {"error"}
    /\ state = ERROR
    /\ Len(task_queue) = 2

C35_EndTimeMeansTerminal ==
    \A x \in DOMAIN execs :
        execs[x].end_time # None => execs[x].status \in Terminal

\* every driver thread of execution x has left the while loop of line 138
Exited(x) ==
    /\ DriversOf(x) # {}
    /\ \A k \in DriversOf(x) : LoopExited(driver[k])

\* C36: a task that is Pending after the driver of its execution has left
\* its loop (attempt_recovery reset it) is never dispatched: the driver does
\* not come back, the task stays Pending, no driver submits it, and once the
\* driver has written the final status the execution keeps it.
C36_RecoveredAfterExitStaysPending ==
    [][\A x \in DOMAIN execs :
          Exited(x) =>
            /\ \A k \in DriversOf(x) :
                    /\ driver'[k].execution = x
                    /\ LoopExited(driver'[k])
                    /\ driver'[k].running_tasks = driver[k].running_tasks
            /\ \A j \in 1..Len(execs[x].tasks) :
                    task[execs[x].tasks[j]].status = PENDING =>
                        /\ task'[execs[x].tasks[j]].status = PENDING
                        /\ task'[execs[x].tasks[j]].start_time
                               = task[execs[x].tasks[j]].start_time
            /\ (\A k \in DriversOf(x) : driver[k].pc \in {"finally", "done"})
                  => execs'[x].status = execs[x].status
      ]_vars

\* C37: no execution of order_processing is ever Completed and the driver
\* that finalizes one writes the status Failed; its first task,
\* validate_order, is never Completed, and a driver that collects it records
\* it Failed.
C37_OrderProcessingFails ==
    [][\A x \in DOMAIN execs :
          execs[x].workflow_id = "order_processing" =>
            /\ execs'[x].status # COMPLETED
            /\ TaskSpecOf(execs[x].tasks[1]).id = "validate_order"
            /\ task'[execs[x].tasks[1]].status # COMPLETED
            /\ \A k \in DriversOf(x) :
                  /\ ("validate_order" \notin driver[k].completed_tasks
                        /\ "validate_order" \in driver'[k].completed_tasks)
                       => task'[execs[x].tasks[1]].status = FAILED
                  /\ (driver[k].pc = "final" /\ driver'[k].pc = "finally")
                       => execs'[x].status = FAILED
      ]_vars

\* an order's execution has been finalized: Failed with its end time set,
\* validate_order Failed, while update_inventory returned
C37_Witness ==
    \E x \in DOMAIN execs :
        /\ execs[x].workflow_id = "order_processing"
        /\ \E k \in DriversOf(x) : driver[k].pc = "done"
        /\ execs[x].status = FAILED
        /\ execs[x].end_time # None
        /\ task[execs[x].tasks[1]].status = FAILED
        /\ task[execs[x].tasks[4]].status = COMPLETED

\* ------------------------------------------------------------ dependencies
\* the ids of the tasks in the list ts
IdsOf(ts) == { TaskSpecOf(ts[j]).id : j \in 1..Len(ts) }

\* task o of execution x has a dependency id that names no task of x
HasDanglingDependency(x, o) ==
    \E dep \in TaskSpecOf(o).dependencies : dep \notin IdsOf(execs[x].tasks)

\* no driver of execution x has submitted or collected the task with id
NeverDispatched(x, id) ==
    \A k \in DriversOf(x) :
        /\ ~InSeq(id, driver[k].running_tasks)
        /\ id \notin driver[k].completed_tasks
        /\ driver[k].future[id] = None

\* C31: a task with a dependency id that names no task of its execution is
\* never dispatched and is Pending in every reachable state.
C31_DanglingNeverDispatched ==
    \A x \in DOMAIN execs : \A j \in 1..Len(execs[x].tasks) :
        LET o == execs[x].tasks[j]
        IN  HasDanglingDependency(x, o) =>
              /\ task[o].status = PENDING
              /\ task[o].start_time = None
              /\ NeverDispatched(x, TaskSpecOf(o).id)

\* the driver has collected A and polls with B, whose dependency Z names no
\* task, still Pending
C31_Witness ==
    \E k \in Drivers :
        /\ Started(k)
        /\ ExecutionOf(k).workflow_id = "dangling"
        /\ driver[k].completed_tasks = {"A"}
        /\ driver[k].pc = "collect"
        /\ task[<<"dangling", 2>>].status = PENDING

\* the ids that can be scheduled in some order: those whose dependencies are
\* all ids scheduled before
RECURSIVE Closure(_, _)
Closure(ts, S) ==
    LET more == { TaskSpecOf(ts[j]).id :
                    j \in { h \in 1..Len(ts) :
                              TaskSpecOf(ts[h]).dependencies \subseteq S } }
    IN  IF more \subseteq S THEN S ELSE Closure(ts, S \cup more)

\* the tasks of execution x on a dependency cycle, behind one, or with a
\* dangling dependency
Unschedulable(x) ==
    { j \in 1..Len(execs[x].tasks) :
         TaskSpecOf(execs[x].tasks[j]).id \notin Closure(execs[x].tasks, {}) }

\* C33: the driver of an execution whose dependencies hold a cycle, a task
\* depending on itself or a dangling dependency never leaves its loop: the
\* affected tasks are Pending, the status is never Completed or Failed and
\* end_time is never set.
C33_UnschedulableNeverExits ==
    \A x \in DOMAIN execs :
        Unschedulable(x) # {} =>
            /\ \A j \in Unschedulable(x) :
                   task[execs[x].tasks[j]].status = PENDING
            /\ execs[x].status \notin Terminal
            /\ execs[x].end_time = None
            /\ \A k \in DriversOf(x) : ~LoopExited(driver[k])

\* the driver of an execution with a task depending on itself has collected
\* the other task and is polling
C33_Witness ==
    \E k \in Drivers :
        /\ Started(k)
        /\ ExecutionOf(k).workflow_id = "selfdep"
        /\ driver[k].completed_tasks = {"B"}
        /\ driver[k].running_tasks = << >>
        /\ driver[k].pc = "collect"
        /\ task[<<"selfdep", 1>>].status = PENDING
        /\ ExecutionOf(k).status = RUNNING

\* C34: an execution of a workflow defined with an empty task list dispatches
\* nothing and is eventually Completed with its end time set.
C34_EmptyWorkflowCompletes ==
    /\ \A x \in 1..MaxExecs :
          []((x \in DOMAIN execs /\ execs[x].workflow_id = "empty")
                => <>(/\ x \in DOMAIN execs
                      /\ execs[x].status = COMPLETED
                      /\ execs[x].end_time # None))
    /\ [](\A k \in Drivers :
             (Started(k) /\ ExecutionOf(k).workflow_id = "empty")
                => /\ driver[k].running_tasks = << >>
                   /\ driver[k].completed_tasks = {}
                   /\ \A j \in 1..Len(work_queue) : work_queue[j][1] # k)

\* ---------------------------------------------------------------- liveness
\* a caller that defines and starts workflows and then only polls
NextPolling ==
    \/ Tick
    \/ \E r \in Registrations : RegisterBeforeStart(r[1], r[2])
    \/ \E w \in WorkflowNames : create_workflow(w)
    \/ \E w \in WorkflowNames : execute_workflow(w, NoId)
    \/ Threads

SpecFair == Init /\ [][NextPolling]_vars /\ Fairness

AllOperationsReturn ==
    /\ DOMAIN registered_functions = {"f_a", "f_b"}
    /\ \A f \in DOMAIN registered_functions : registered_functions[f] = "returns"

\* C4: an execution of a workflow whose operations are all registered and
\* return eventually is Completed with every task Completed, and B starts
\* only after A became terminal.
C4_ChainCompletes ==
    /\ \A x \in 1..MaxExecs :
          [](( x \in DOMAIN execs /\ AllOperationsReturn ) =>
                <>( /\ x \in DOMAIN execs
                    /\ execs[x].status = COMPLETED
                    /\ \A j \in 1..Len(execs[x].tasks) :
                           task[execs[x].tasks[j]].status = COMPLETED ))
    /\ [](task[<<"chain", 2>>].start_time # None =>
             task[<<"chain", 1>>].end_time # None)
====
